---------------------------- MODULE Spec2Model ----------------------------
(***************************************************************************)
(* AI Agent Task Decomposer: the two Streamlit applications app.py and     *)
(* app_pavi.py.  A provider reply is a sequence of lexical tokens; Python  *)
(* values are records tagged by their only field name:                     *)
(*   [num |-> "1"]  [str |-> "x"]  [null |-> TRUE]                         *)
(*   [list |-> <<v1, ...>>]  [dict |-> [key |-> v]]                        *)
(***************************************************************************)
EXTENDS Integers, Sequences, FiniteSets, TLC

(***************************************************************************)
(* Bounds of the model.                                                    *)
(***************************************************************************)
MaxJsonLen == 5
MaxMarkerLen == 3
MaxClock == 2

(***************************************************************************)
(* Text: sequences of tokens.                                              *)
(***************************************************************************)
WS == " "
NumberTokens == {"0", "1", "2", "42"}
StringTokens == {"", "task_id", "title", "agent_type", "requirements",
                 "id", "name", "category", "description",
                 "BACKEND", "FRONTEND", "t", "r", "k",
                 "database_schema", "component_code"}
ProseTokens == {"Sorry"}

RECURSIVE SeqsUpTo(_, _)
SeqsUpTo(S, n) ==
    IF n = 0 THEN {<<>>}
    ELSE LET shorter == SeqsUpTo(S, n - 1)
         IN  shorter \cup {Append(s, x) : s \in {t \in shorter : Len(t) = n - 1}, x \in S}

RECURSIVE LStrip(_)
LStrip(s) == IF s # <<>> /\ Head(s) = WS THEN LStrip(Tail(s)) ELSE s

RECURSIVE RStrip(_)
RStrip(s) ==
    IF s # <<>> /\ s[Len(s)] = WS THEN RStrip(SubSeq(s, 1, Len(s) - 1)) ELSE s

Strip(s) == RStrip(LStrip(s))

(***************************************************************************)
(* Python values.                                                          *)
(***************************************************************************)
None == [null |-> TRUE]
EmptyList == [list |-> <<>>]
EmptyDict == [dict |-> <<>>]

IsList(v) == DOMAIN v = {"list"}
IsDict(v) == DOMAIN v = {"dict"}

Truthy(v) ==
    CASE DOMAIN v = {"num"}  -> v.num # "0"
      [] DOMAIN v = {"str"}  -> v.str # ""
      [] DOMAIN v = {"list"} -> v.list # <<>>
      [] DOMAIN v = {"dict"} -> DOMAIN v.dict # {}
      [] DOMAIN v = {"text"} -> v.text # <<>>
      [] OTHER               -> FALSE

PyStr(v) ==
    CASE DOMAIN v = {"num"} -> v.num
      [] DOMAIN v = {"str"} -> v.str
      [] DOMAIN v = {"null"} -> "None"
      [] OTHER -> "<object>"

HasKey(d, k) == IsDict(d) /\ k \in DOMAIN d.dict
Get(d, k, default) == IF k \in DOMAIN d.dict THEN d.dict[k] ELSE default

(***************************************************************************)
(* json.loads on a token sequence.                                         *)
(***************************************************************************)
ParseFail == [ok |-> FALSE, val |-> None, pos |-> 0]
ParseOk(v, p) == [ok |-> TRUE, val |-> v, pos |-> p]

RECURSIVE SkipWs(_, _)
SkipWs(s, i) == IF i <= Len(s) /\ s[i] = WS THEN SkipWs(s, i + 1) ELSE i

RECURSIVE ParseValue(_, _)
RECURSIVE ParseElements(_, _, _)
RECURSIVE ParseMembers(_, _, _)

ParseValue(s, i0) ==
    LET i == SkipWs(s, i0)
    IN  IF i > Len(s) THEN ParseFail
        ELSE IF s[i] \in NumberTokens THEN ParseOk([num |-> s[i]], i + 1)
        ELSE IF s[i] \in StringTokens THEN ParseOk([str |-> s[i]], i + 1)
        ELSE IF s[i] = "null" THEN ParseOk(None, i + 1)
        ELSE IF s[i] = "[" THEN
            LET j == SkipWs(s, i + 1)
            IN  IF j <= Len(s) /\ s[j] = "]" THEN ParseOk(EmptyList, j + 1)
                ELSE ParseElements(s, i + 1, <<>>)
        ELSE IF s[i] = "{" THEN
            LET j == SkipWs(s, i + 1)
            IN  IF j <= Len(s) /\ s[j] = "}" THEN ParseOk(EmptyDict, j + 1)
                ELSE ParseMembers(s, i + 1, <<>>)
        ELSE ParseFail

ParseElements(s, i, acc) ==
    LET r == ParseValue(s, i)
    IN  IF ~r.ok THEN ParseFail
        ELSE LET j == SkipWs(s, r.pos)
             IN  IF j > Len(s) THEN ParseFail
                 ELSE IF s[j] = "," THEN ParseElements(s, j + 1, Append(acc, r.val))
                 ELSE IF s[j] = "]" THEN ParseOk([list |-> Append(acc, r.val)], j + 1)
                 ELSE ParseFail

ParseMembers(s, i, acc) ==
    LET k == SkipWs(s, i)
    IN  IF k > Len(s) \/ s[k] \notin StringTokens THEN ParseFail
        ELSE LET c == SkipWs(s, k + 1)
             IN  IF c > Len(s) \/ s[c] # ":" THEN ParseFail
                 ELSE LET r == ParseValue(s, c + 1)
                      IN  IF ~r.ok THEN ParseFail
                          ELSE LET j == SkipWs(s, r.pos)
                                   d == [x \in DOMAIN acc \cup {s[k]} |->
                                            IF x = s[k] THEN r.val ELSE acc[x]]
                               IN  IF j > Len(s) THEN ParseFail
                                   ELSE IF s[j] = "," THEN ParseMembers(s, j + 1, d)
                                   ELSE IF s[j] = "}" THEN ParseOk([dict |-> d], j + 1)
                                   ELSE ParseFail

json_loads(s) ==
    LET r == ParseValue(s, 1)
    IN  IF r.ok /\ SkipWs(s, r.pos) > Len(s)
        THEN [ok |-> TRUE, val |-> r.val]
        ELSE [ok |-> FALSE, val |-> None]

(***************************************************************************)
(* re.search(r'\[.*\]', content, re.DOTALL) and the '\{.*\}' twin: the     *)
(* leftmost opening bracket up to the last closing bracket after it.       *)
(***************************************************************************)
Positions(s, tok) == {i \in 1..Len(s) : s[i] = tok}
Min(S) == CHOOSE x \in S : \A y \in S : x <= y
Max(S) == CHOOSE x \in S : \A y \in S : x >= y

re_search_brackets(content, open, close) ==
    LET opens == Positions(content, open)
        closes == Positions(content, close)
    IN  IF opens # {} /\ closes # {} /\ Max(closes) > Min(opens)
        THEN [found |-> TRUE, group |-> SubSeq(content, Min(opens), Max(closes))]
        ELSE [found |-> FALSE, group |-> <<>>]

(***************************************************************************)
(* The provider's answer to one chat completion: it raises, or it replies  *)
(* with a text.                                                            *)
(***************************************************************************)
ProviderError == [raises |-> TRUE, text |-> <<>>]
Reply(text) == [raises |-> FALSE, text |-> text]

(* What a call returned: its value, the st.error message it showed ("" for *)
(* none) and whether an exception left the function uncaught.              *)
Returned(v) == [ret |-> v, error |-> "", raised |-> FALSE]
Caught(v, msg) == [ret |-> v, error |-> msg, raised |-> FALSE]
Uncaught == [ret |-> None, error |-> "", raised |-> TRUE]

extract_json(resp, open, close, onError, msg) ==
    IF resp.raises THEN Caught(onError, msg)
    ELSE LET content == Strip(resp.text)
             json_match == re_search_brackets(content, open, close)
             parsed == IF json_match.found THEN json_loads(json_match.group)
                       ELSE json_loads(content)
         IN  IF parsed.ok THEN Returned(parsed.val) ELSE Caught(onError, msg)

decompose_project(resp) ==
    extract_json(resp, "[", "]", EmptyList, "Error in coordinator agent")

analyze_and_breakdown(resp) ==
    extract_json(resp, "[", "]", EmptyList, "Coordinator error")

BackendAgent_generate_code(task, resp) ==
    IF ~(HasKey(task, "title") /\ HasKey(task, "requirements")) THEN Uncaught
    ELSE extract_json(resp, "{", "}", EmptyDict, "Error in backend agent")

FrontendAgent_generate_code(task, resp) ==
    IF ~(HasKey(task, "title") /\ HasKey(task, "requirements")) THEN Uncaught
    ELSE extract_json(resp, "{", "}", EmptyDict, "Error in frontend agent")


(***************************************************************************)
(* Section-marker extraction of app_pavi.py.  A header line such as        *)
(* "# === DATABASE MODELS ===" is one token; HeaderInfo gives the comment  *)
(* prefix it starts with and the section name as written.                  *)
(***************************************************************************)
HeaderInfo ==
    ("# === DATABASE MODELS ===" :> <<"#", "DATABASE MODELS">>) @@
    ("# === database models ===" :> <<"#", "database models">>) @@
    ("# === API ROUTES ===" :> <<"#", "API ROUTES">>) @@
    ("# === BUSINESS LOGIC ===" :> <<"#", "BUSINESS LOGIC">>) @@
    ("# === DEPENDENCIES ===" :> <<"#", "DEPENDENCIES">>) @@
    ("# === NOTES ===" :> <<"#", "NOTES">>) @@
    ("// === REACT COMPONENT ===" :> <<"//", "REACT COMPONENT">>) @@
    ("// === react component ===" :> <<"//", "react component">>) @@
    ("// === STYLES ===" :> <<"//", "STYLES">>) @@
    ("// === HOOKS & API ===" :> <<"//", "HOOKS & API">>) @@
    ("// === DEPENDENCIES ===" :> <<"//", "DEPENDENCIES">>) @@
    ("// === NOTES ===" :> <<"//", "NOTES">>)

IsHeader(tok) == tok \in DOMAIN HeaderInfo
HeaderPrefix(tok) == HeaderInfo[tok][1]
HeaderName(tok) == HeaderInfo[tok][2]

(* re.IGNORECASE: names are compared after case folding. *)
UpperCase(name) ==
    CASE name = "database models" -> "DATABASE MODELS"
      [] name = "react component" -> "REACT COMPONENT"
      [] OTHER -> name

(* re.search(prefix \s*===\s* NAME \s*===\s* (.*?)(?=prefix\s*===|$)):     *)
(* the first header of that name, and the text after it up to the next     *)
(* line that starts like a header with the same prefix, or the end.        *)
section_search(content, prefix, name) ==
    LET starts == {i \in 1..Len(content) :
                      /\ IsHeader(content[i])
                      /\ HeaderPrefix(content[i]) = prefix
                      /\ UpperCase(HeaderName(content[i])) = name}
    IN  IF starts = {} THEN [found |-> FALSE, group |-> <<>>]
        ELSE LET i == Min(starts)
                 stops == {j \in (i + 1)..Len(content) :
                              IsHeader(content[j]) /\ HeaderPrefix(content[j]) = prefix}
                 e == IF stops = {} THEN Len(content) + 1 ELSE Min(stops)
             IN  [found |-> TRUE, group |-> SubSeq(content, i + 1, e - 1)]

section_field(content, prefix, name) ==
    LET m == section_search(content, prefix, name)
    IN  IF m.found THEN Strip(m.group) ELSE <<>>

(* A Python str holding reply text. *)
Text(s) == [text |-> s]
Placeholder(msg) == [text |-> <<msg>>]

BackendFields == {"models", "routes", "logic", "dependencies"}
FrontendFields == {"component", "styles", "hooks", "dependencies"}

BackendErrorRecord ==
    [dict |-> [f \in BackendFields |-> Placeholder("# Error generating code")]]

(* The fallback taking the reply as received instead of the trimmed one. *)
BackendDeveloper_create_implementation_Untrimmed(task, resp) ==
    IF ~(HasKey(task, "name") /\ HasKey(task, "description")) THEN Uncaught
    ELSE IF resp.raises THEN Caught(BackendErrorRecord, "Backend developer error")
    ELSE LET content == Strip(resp.text)
             models == section_field(content, "#", "DATABASE MODELS")
             routes == section_field(content, "#", "API ROUTES")
             logic == section_field(content, "#", "BUSINESS LOGIC")
             deps == section_field(content, "#", "DEPENDENCIES")
         IN  IF models = <<>> /\ routes = <<>> /\ logic = <<>> /\ deps = <<>>
             THEN Returned([dict |-> [models |-> Text(resp.text),
                                      routes |-> Placeholder("# Code generated above"),
                                      logic |-> Placeholder("# Code generated above"),
                                      dependencies |-> Placeholder("# Check requirements above")]])
             ELSE Returned([dict |-> [models |-> Text(models),
                                      routes |-> Text(routes),
                                      logic |-> Text(logic),
                                      dependencies |-> Text(deps)]])

BackendDeveloper_create_implementation(task, resp) ==
    IF ~(HasKey(task, "name") /\ HasKey(task, "description")) THEN Uncaught
    ELSE IF resp.raises THEN Caught(BackendErrorRecord, "Backend developer error")
    ELSE LET content == Strip(resp.text)
             models == section_field(content, "#", "DATABASE MODELS")
             routes == section_field(content, "#", "API ROUTES")
             logic == section_field(content, "#", "BUSINESS LOGIC")
             deps == section_field(content, "#", "DEPENDENCIES")
         IN  IF models = <<>> /\ routes = <<>> /\ logic = <<>> /\ deps = <<>>
             THEN Returned([dict |-> [models |-> Text(content),
                                      routes |-> Placeholder("# Code generated above"),
                                      logic |-> Placeholder("# Code generated above"),
                                      dependencies |-> Placeholder("# Check requirements above")]])
             ELSE Returned([dict |-> [models |-> Text(models),
                                      routes |-> Text(routes),
                                      logic |-> Text(logic),
                                      dependencies |-> Text(deps)]])

(* The fallback taken only for a reply without any header line. *)
FrontendDeveloper_create_implementation_NoMarkerOnly(task, resp) ==
    IF ~(HasKey(task, "name") /\ HasKey(task, "description")) THEN Uncaught
    ELSE IF resp.raises THEN Caught(EmptyDict, "Frontend developer error")
    ELSE LET content == Strip(resp.text)
             component == section_field(content, "//", "REACT COMPONENT")
             styles == section_field(content, "//", "STYLES")
             hooks == section_field(content, "//", "HOOKS & API")
             deps == section_field(content, "//", "DEPENDENCIES")
         IN  IF \A i \in DOMAIN content :
                   ~(IsHeader(content[i]) /\ HeaderPrefix(content[i]) = "//")
             THEN Returned([dict |-> [component |-> Text(content),
                                      styles |-> Text(<<>>),
                                      hooks |-> Text(<<>>),
                                      dependencies |-> Text(<<>>)]])
             ELSE Returned([dict |-> [component |-> Text(component),
                                      styles |-> Text(styles),
                                      hooks |-> Text(hooks),
                                      dependencies |-> Text(deps)]])

FrontendDeveloper_create_implementation(task, resp) ==
    IF ~(HasKey(task, "name") /\ HasKey(task, "description")) THEN Uncaught
    ELSE IF resp.raises THEN Caught(EmptyDict, "Frontend developer error")
    ELSE LET content == Strip(resp.text)
             component == section_field(content, "//", "REACT COMPONENT")
             styles == section_field(content, "//", "STYLES")
             hooks == section_field(content, "//", "HOOKS & API")
             deps == section_field(content, "//", "DEPENDENCIES")
         IN  IF component = <<>> /\ styles = <<>> /\ hooks = <<>> /\ deps = <<>>
             THEN Returned([dict |-> [component |-> Text(content),
                                      styles |-> Text(<<>>),
                                      hooks |-> Text(<<>>),
                                      dependencies |-> Text(<<>>)]])
             ELSE Returned([dict |-> [component |-> Text(component),
                                      styles |-> Text(styles),
                                      hooks |-> Text(hooks),
                                      dependencies |-> Text(deps)]])


(***************************************************************************)
(* State.  st.session_state of app.py: api_key, tasks, generated_code,     *)
(* project_brief; of app_pavi.py: openai_key, task_list, code_outputs,     *)
(* project_description.  Widget state: filter_option.  program is the      *)
(* script this session runs, now the wall clock, ui what the last script   *)
(* run put on the page, provider_calls the credentials of the chat         *)
(* completions sent so far.  response, call and outcome hold one           *)
(* application of an extraction function to one provider response: in a    *)
(* session, the one the last script run made.                              *)
(***************************************************************************)
VARIABLES program, api_key, tasks, generated_code, project_brief,
          openai_key, task_list, code_outputs, project_description,
          filter_option, now, ui, provider_calls,
          response, call, outcome

app_vars == <<api_key, tasks, generated_code, project_brief>>
pavi_vars == <<openai_key, task_list, code_outputs, project_description, filter_option>>
session_vars == <<program, app_vars, pavi_vars, now, ui, provider_calls>>
pure_vars == <<response, call, outcome>>
vars == <<session_vars, pure_vars>>

(***************************************************************************)
(* Task records used as arguments of the generators.                       *)
(***************************************************************************)
Str(s) == [str |-> s]
Num(n) == [num |-> n]

AppTask(id, type) ==
    [dict |-> [task_id |-> Num(id), title |-> Str("t"),
               agent_type |-> Str(type), requirements |-> Str("r")]]
AppTaskNoTitle(id, type) == [dict |-> [task_id |-> Num(id), agent_type |-> Str(type)]]

PaviTask(id, cat) ==
    [dict |-> [id |-> Num(id), name |-> Str("t"),
               category |-> Str(cat), description |-> Str("r")]]
PaviTaskNoName(id, cat) == [dict |-> [id |-> Num(id), category |-> Str(cat)]]

(***************************************************************************)
(* Extraction functions applied to bounded provider responses.             *)
(***************************************************************************)
JsonAlphabet == {"[", "]", "{", "}", ",", ":", "title", "1", "Sorry"}
MarkerAlphabet == DOMAIN HeaderInfo \cup {"a", "class Post: pass", WS}

Responses(alphabet, maxLen) ==
    {ProviderError} \cup {Reply(t) : t \in SeqsUpTo(alphabet, maxLen)}

NoCall == [fn |-> "none", task |-> None, brief |-> ""]
NoOutcome == Returned(None)

Applied(fn, task, result) ==
    /\ call = NoCall
    /\ call' = [fn |-> fn, task |-> task, brief |-> ""]
    /\ outcome' = result
    /\ UNCHANGED <<response, session_vars>>

Call_decompose_project ==
    Applied("decompose_project", None, decompose_project(response))

Call_analyze_and_breakdown ==
    Applied("analyze_and_breakdown", None, analyze_and_breakdown(response))

Call_BackendAgent_generate_code ==
    \E task \in {AppTask("1", "BACKEND"), AppTaskNoTitle("1", "BACKEND")} :
        Applied("BackendAgent.generate_code", task,
                BackendAgent_generate_code(task, response))

Call_FrontendAgent_generate_code ==
    \E task \in {AppTask("1", "FRONTEND"), AppTaskNoTitle("1", "FRONTEND")} :
        Applied("FrontendAgent.generate_code", task,
                FrontendAgent_generate_code(task, response))

Call_BackendDeveloper_create_implementation ==
    \E task \in {PaviTask("1", "BACKEND"), PaviTaskNoName("1", "BACKEND")} :
        Applied("BackendDeveloper.create_implementation", task,
                BackendDeveloper_create_implementation(task, response))

Call_FrontendDeveloper_create_implementation ==
    \E task \in {PaviTask("1", "FRONTEND"), PaviTaskNoName("1", "FRONTEND")} :
        Applied("FrontendDeveloper.create_implementation", task,
                FrontendDeveloper_create_implementation(task, response))


(***************************************************************************)
(* Python dict with insertion order: a sequence of [key, value] entries.   *)
(***************************************************************************)
DictKeys(d) == {d[i].key : i \in DOMAIN d}
DictGet(d, k) == d[CHOOSE i \in DOMAIN d : d[i].key = k].value
DictSet(d, k, v) ==
    IF k \in DictKeys(d)
    THEN [i \in DOMAIN d |-> IF d[i].key = k THEN [key |-> k, value |-> v] ELSE d[i]]
    ELSE Append(d, [key |-> k, value |-> v])
DictDel(d, k) == SelectSeq(d, LAMBDA e : e.key # k)

(***************************************************************************)
(* What a script run did with the provider: the function it called with    *)
(* its task and brief, the response the provider gave and what the         *)
(* function made of it; NoCall for a run that called nothing.              *)
(***************************************************************************)
Called(fn, task, brief, resp, out) ==
    /\ call' = [fn |-> fn, task |-> task, brief |-> brief]
    /\ response' = resp
    /\ outcome' = out

NoProviderCall ==
    /\ call' = NoCall
    /\ response' = ProviderError
    /\ outcome' = NoOutcome

(***************************************************************************)
(* The page a script run renders.  gen / regen: the task keys that got a   *)
(* Generate button / the "generated" mark with its Regenerate button;      *)
(* shown: the keys of the artifacts displayed in the generated-code        *)
(* section, backend_tabs those of them displayed with the backend tabs     *)
(* (the others get the frontend tabs); crashed: the uncaught exception that ended the run, "" for     *)
(* none; clicked: the widget whose event started the run; download: the    *)
(* document the run offers for download, None for none.                    *)
(***************************************************************************)
BlankPage ==
    [warning |-> FALSE, crashed |-> "", errors |-> {},
     reset_btn |-> FALSE, decompose_btn |-> FALSE, edit_btn |-> FALSE,
     filter_box |-> FALSE, gen |-> {}, regen |-> {}, shown |-> {},
     backend_tabs |-> {},
     export_btn |-> FALSE, download |-> None, clicked |-> "first run"]

Unset == "<unset>"
Briefs == {"", "A", "B"}
ApiKeys == {"", "sk-test"}

(* The gate left out: the script goes on without a credential. *)
ApiKeyMissing_Never(k) == FALSE

(* `if not st.session_state.api_key: st.warning(...); return` *)
ApiKeyMissing(k) == k = ""

(* sum(1 for t in tasks if t.get(...)) and the loops over the tasks work   *)
(* only on a list of dicts.                                                *)
IsTaskList(v) == IsList(v) /\ \A i \in DOMAIN v.list : IsDict(v.list[i])

Messages(out) == IF out.error = "" THEN {} ELSE {out.error}

(***************************************************************************)
(* app.py                                                                  *)
(***************************************************************************)
(* f"task_{task.get('task_id', i+1)}", i the 0-based position; pos = i+1 *)
app_task_key(task, pos) == "task_" \o PyStr(Get(task, "task_id", Num(ToString(pos))))

AppTaskKeys(ts) ==
    IF IsTaskList(ts) THEN {app_task_key(ts.list[i], i) : i \in DOMAIN ts.list} ELSE {}

RECURSIVE AppTaskButtons(_, _, _, _, _)
AppTaskButtons(ts, gc, pos, page, crashAt) ==
    IF pos > Len(ts) THEN page
    ELSE LET task_key == app_task_key(ts[pos], pos)
         IN  IF task_key \notin DictKeys(gc)
             THEN IF task_key \in page.gen
                  THEN [page EXCEPT !.crashed = "DuplicateWidgetID"]
                  ELSE IF crashAt = pos
                  THEN [page EXCEPT !.gen = @ \cup {task_key}, !.crashed = "KeyError"]
                  ELSE AppTaskButtons(ts, gc, pos + 1,
                                      [page EXCEPT !.gen = @ \cup {task_key}], crashAt)
             ELSE IF task_key \in page.regen
                  THEN [page EXCEPT !.crashed = "DuplicateWidgetID"]
                  ELSE AppTaskButtons(ts, gc, pos + 1,
                                      [page EXCEPT !.regen = @ \cup {task_key}], crashAt)

(* field: the task field the tabs are chosen by, agent_type in app.py and  *)
(* category in app_pavi.py.                                                *)
RECURSIVE ShowArtifacts(_, _, _, _)
ShowArtifacts(gc, i, page, field) ==
    IF i > Len(gc) THEN page
    ELSE IF ~IsDict(gc[i].value.code) THEN [page EXCEPT !.crashed = "AttributeError"]
    ELSE ShowArtifacts(gc, i + 1,
                       [page EXCEPT
                           !.shown = @ \cup {gc[i].key},
                           !.backend_tabs =
                               IF Get(gc[i].value.task, field, None) = Str("BACKEND")
                               THEN @ \cup {gc[i].key} ELSE @],
                       field)

AppRender(k, ts, gc, errs, crashAt) ==
    LET sidebar == [BlankPage EXCEPT !.reset_btn = TRUE, !.errors = errs]
    IN  IF ApiKeyMissing(k) THEN [sidebar EXCEPT !.warning = TRUE]
        ELSE LET step1 == [sidebar EXCEPT !.decompose_btn = TRUE]
                 step2 == IF ~Truthy(ts) THEN step1
                          ELSE IF ~IsTaskList(ts) THEN [step1 EXCEPT !.crashed = "AttributeError"]
                          ELSE AppTaskButtons(ts.list, gc, 1, step1, crashAt)
             IN  IF step2.crashed # "" THEN step2
                 ELSE ShowArtifacts(gc, 1, step2, "agent_type")

AppDecomposeResponses ==
    { ProviderError,
      Reply(<<"Sorry">>),
      Reply(<<"{", "title", ":", "1", "}">>),
      Reply(<<"[", "{", "task_id", ":", "1", ",", "title", ":", "t", ",",
              "agent_type", ":", "BACKEND", ",", "requirements", ":", "r", "}", "]">>),
      Reply(<<"Sorry", "[", "{", "task_id", ":", "2", ",",
              "agent_type", ":", "BACKEND", "}", "]", WS>>),
      Reply(<<"[", "{", "task_id", ":", "2", ",", "title", ":", "t", ",",
              "agent_type", ":", "k", ",", "requirements", ":", "r", "}", ",",
              "{", "title", ":", "t", ",", "agent_type", ":", "FRONTEND", ",",
              "requirements", ":", "r", "}", "]">>) }

AppGenerateResponses ==
    { ProviderError,
      Reply(<<"Sorry">>),
      Reply(<<"Sorry", "{", "database_schema", ":", "k", "}", WS>>),
      Reply(<<"42">>) }

AppRun(widget, errs, crashAt) ==
    ui' = [AppRender(api_key', tasks', generated_code', errs, crashAt)
              EXCEPT !.clicked = widget]

(* The user types into the sidebar's key field. *)
AppEnterApiKey ==
    /\ program = "app"
    /\ \E typed \in ApiKeys :
          api_key' = IF typed # "" THEN typed ELSE api_key
    /\ UNCHANGED <<tasks, generated_code, project_brief>>
    /\ AppRun("api key", {}, 0)
    /\ UNCHANGED <<program, pavi_vars, now, provider_calls>>
    /\ NoProviderCall

(* Clear All Tasks that forgets the generated code. *)
AppClearAllTasks_KeepsCode ==
    /\ program = "app"
    /\ ui.reset_btn
    /\ tasks' = EmptyList
    /\ UNCHANGED <<api_key, generated_code, project_brief>>
    /\ AppRun("Clear All Tasks", {}, 0)
    /\ UNCHANGED <<program, pavi_vars, now, provider_calls>>
    /\ NoProviderCall

AppClearAllTasks ==
    /\ program = "app"
    /\ ui.reset_btn
    /\ tasks' = EmptyList
    /\ generated_code' = <<>>
    /\ UNCHANGED <<api_key, project_brief>>
    /\ AppRun("Clear All Tasks", {}, 0)
    /\ UNCHANGED <<program, pavi_vars, now, provider_calls>>
    /\ NoProviderCall

(* The handler storing the brief before it looks at the result. *)
AppDecompose_StoresBriefOnFailure ==
    /\ program = "app"
    /\ ui.decompose_btn
    /\ \E brief \in Briefs \ {""}, resp \in AppDecomposeResponses :
          LET out == decompose_project(resp)
          IN  /\ provider_calls' = provider_calls \cup {api_key}
              /\ Called("decompose_project", None, brief, resp, out)
              /\ project_brief' = brief
              /\ IF Truthy(out.ret)
                 THEN /\ tasks' = out.ret
                      /\ UNCHANGED <<api_key, generated_code>>
                      /\ AppRun("Decompose Project", Messages(out), 0)
                 ELSE /\ UNCHANGED <<api_key, tasks, generated_code>>
                      /\ AppRun("Decompose Project",
                                Messages(out) \cup {"Failed to decompose project"}, 0)
    /\ UNCHANGED <<program, pavi_vars, now>>

AppDecompose ==
    /\ program = "app"
    /\ ui.decompose_btn
    /\ \E brief \in Briefs \ {""}, resp \in AppDecomposeResponses :
          LET out == decompose_project(resp)
          IN  /\ provider_calls' = provider_calls \cup {api_key}
              /\ Called("decompose_project", None, brief, resp, out)
              /\ IF Truthy(out.ret)
                 THEN /\ tasks' = out.ret
                      /\ project_brief' = brief
                      /\ UNCHANGED <<api_key, generated_code>>
                      /\ AppRun("Decompose Project", Messages(out), 0)
                 ELSE /\ UNCHANGED app_vars
                      /\ AppRun("Decompose Project", Messages(out) \cup {"Failed to decompose project"}, 0)
    /\ UNCHANGED <<program, pavi_vars, now>>

(* The handler sending every task that is not FRONTEND to the backend agent. *)
AppGenerate_UnknownToBackend ==
    /\ program = "app"
    /\ \E task_key \in ui.gen, resp \in AppGenerateResponses, t \in now..MaxClock :
          LET pos == Min({i \in DOMAIN tasks.list : app_task_key(tasks.list[i], i) = task_key})
              task == tasks.list[pos]
              agent == IF Get(task, "agent_type", None) = Str("FRONTEND")
                       THEN "FrontendAgent.generate_code"
                       ELSE "BackendAgent.generate_code"
              out == IF project_brief = Unset THEN Uncaught
                     ELSE IF agent = "BackendAgent.generate_code"
                     THEN BackendAgent_generate_code(task, resp)
                     ELSE FrontendAgent_generate_code(task, resp)
          IN  IF out.raised
              THEN /\ t = now
                   /\ UNCHANGED <<app_vars, now, provider_calls>>
                   /\ Called(agent, task, project_brief, ProviderError, out)
                   /\ AppRun("Generate Code", {}, pos)
              ELSE /\ provider_calls' = provider_calls \cup {api_key}
                   /\ Called(agent, task, project_brief, resp, out)
                   /\ IF Truthy(out.ret)
                      THEN /\ generated_code' =
                                DictSet(generated_code, task_key,
                                        [task |-> task, code |-> out.ret, timestamp |-> t])
                           /\ now' = t
                           /\ UNCHANGED <<api_key, tasks, project_brief>>
                           /\ AppRun("Generate Code", {}, 0)
                      ELSE /\ t = now
                           /\ UNCHANGED <<app_vars, now>>
                           /\ AppRun("Generate Code", Messages(out), 0)
    /\ UNCHANGED <<program, pavi_vars>>

AppGenerate ==
    /\ program = "app"
    /\ \E task_key \in ui.gen, resp \in AppGenerateResponses, t \in now..MaxClock :
          LET pos == Min({i \in DOMAIN tasks.list : app_task_key(tasks.list[i], i) = task_key})
              task == tasks.list[pos]
              agent == IF Get(task, "agent_type", None) = Str("BACKEND")
                       THEN "BackendAgent.generate_code"
                       ELSE "FrontendAgent.generate_code"
              out == IF project_brief = Unset THEN Uncaught
                     ELSE IF agent = "BackendAgent.generate_code"
                     THEN BackendAgent_generate_code(task, resp)
                     ELSE FrontendAgent_generate_code(task, resp)
          IN  IF out.raised
              THEN /\ t = now
                   /\ UNCHANGED <<app_vars, now, provider_calls>>
                   /\ Called(agent, task, project_brief, ProviderError, out)
                   /\ AppRun("Generate Code", {}, pos)
              ELSE /\ provider_calls' = provider_calls \cup {api_key}
                   /\ Called(agent, task, project_brief, resp, out)
                   /\ IF Truthy(out.ret)
                      THEN /\ generated_code' =
                                DictSet(generated_code, task_key,
                                        [task |-> task, code |-> out.ret, timestamp |-> t])
                           /\ now' = t
                           /\ UNCHANGED <<api_key, tasks, project_brief>>
                           /\ AppRun("Generate Code", {}, 0)
                      ELSE /\ t = now
                           /\ UNCHANGED <<app_vars, now>>
                           /\ AppRun("Generate Code", Messages(out), 0)
    /\ UNCHANGED <<program, pavi_vars>>

(* Regenerate that overwrites the stored record instead of deleting it. *)
AppRegenerate_InPlace ==
    /\ program = "app"
    /\ \E task_key \in ui.regen :
          generated_code' = DictSet(generated_code, task_key,
                                    [DictGet(generated_code, task_key)
                                        EXCEPT !.code = [dict |-> [requirements |-> Str("r")]]])
    /\ UNCHANGED <<api_key, tasks, project_brief>>
    /\ AppRun("Regenerate", {}, 0)
    /\ UNCHANGED <<program, pavi_vars, now, provider_calls>>
    /\ NoProviderCall

AppRegenerate ==
    /\ program = "app"
    /\ \E task_key \in ui.regen :
          generated_code' = DictDel(generated_code, task_key)
    /\ UNCHANGED <<api_key, tasks, project_brief>>
    /\ AppRun("Regenerate", {}, 0)
    /\ UNCHANGED <<program, pavi_vars, now, provider_calls>>
    /\ NoProviderCall

NextApp ==
    \/ AppEnterApiKey
    \/ AppClearAllTasks
    \/ AppDecompose
    \/ AppGenerate
    \/ AppRegenerate


(***************************************************************************)
(* app_pavi.py                                                             *)
(***************************************************************************)
FilterOptions == {"All Tasks", "Backend Only", "Frontend Only"}

(* f"task_{task.get('id', idx)}", idx the 0-based position in the          *)
(* filtered list; pos = idx + 1                                            *)
pavi_task_key(task, pos) == "task_" \o PyStr(Get(task, "id", Num(ToString(pos - 1))))

filtered_tasks(tl, option) ==
    CASE option = "Backend Only" ->
            SelectSeq(tl, LAMBDA t : Get(t, "category", None) = Str("BACKEND"))
      [] option = "Frontend Only" ->
            SelectSeq(tl, LAMBDA t : Get(t, "category", None) = Str("FRONTEND"))
      [] OTHER -> tl

RECURSIVE PaviTaskButtons(_, _, _, _, _)
PaviTaskButtons(ts, co, pos, page, crashAt) ==
    IF pos > Len(ts) THEN page
    ELSE LET task_key == pavi_task_key(ts[pos], pos)
         IN  IF task_key \notin DictKeys(co)
             THEN IF task_key \in page.gen
                  THEN [page EXCEPT !.crashed = "DuplicateWidgetID"]
                  ELSE IF crashAt = pos
                  THEN [page EXCEPT !.gen = @ \cup {task_key}, !.crashed = "KeyError"]
                  ELSE PaviTaskButtons(ts, co, pos + 1,
                                       [page EXCEPT !.gen = @ \cup {task_key}], crashAt)
             ELSE IF task_key \in page.regen
                  THEN [page EXCEPT !.crashed = "DuplicateWidgetID"]
                  ELSE PaviTaskButtons(ts, co, pos + 1,
                                       [page EXCEPT !.regen = @ \cup {task_key}], crashAt)

(* side: the task list as the sidebar statistics and the Edit Tasks button *)
(* saw it, before this run's handler; tl: the task list after the handler. *)
PaviRender(k, side, tl, co, option, errs, crashAt) ==
    IF Truthy(side) /\ ~IsTaskList(side)
    THEN [BlankPage EXCEPT !.crashed = "AttributeError"]
    ELSE LET sidebar == [BlankPage EXCEPT !.reset_btn = TRUE, !.errors = errs]
         IN  IF ApiKeyMissing(k) THEN [sidebar EXCEPT !.warning = TRUE]
             ELSE LET step1 == [sidebar EXCEPT !.decompose_btn = TRUE,
                                               !.edit_btn = Truthy(side)]
                      step2 == IF ~Truthy(tl) THEN step1
                               ELSE IF ~IsTaskList(tl)
                               THEN [step1 EXCEPT !.filter_box = TRUE,
                                                  !.crashed = "AttributeError"]
                               ELSE PaviTaskButtons(filtered_tasks(tl.list, option), co, 1,
                                                    [step1 EXCEPT !.filter_box = TRUE],
                                                    crashAt)
                  IN  IF step2.crashed # "" THEN step2
                      ELSE ShowArtifacts(co, 1, [step2 EXCEPT !.export_btn = (co # <<>>)],
                                         "category")

PaviAnalyzeResponses ==
    { ProviderError,
      Reply(<<"Sorry">>),
      Reply(<<"{", "name", ":", "1", "}">>),
      Reply(<<"[", "{", "id", ":", "1", ",", "name", ":", "t", ",",
              "category", ":", "BACKEND", ",", "description", ":", "r", "}", "]">>),
      Reply(<<"Sorry", "[", "{", "id", ":", "2", ",",
              "category", ":", "BACKEND", "}", "]", WS>>),
      Reply(<<"[", "{", "id", ":", "1", ",", "name", ":", "t", ",",
              "category", ":", "k", ",", "description", ":", "r", "}", ",",
              "{", "name", ":", "t", ",", "category", ":", "FRONTEND", ",",
              "description", ":", "r", "}", "]">>) }

PaviGenerateResponses ==
    { ProviderError,
      Reply(<<WS, "# === DATABASE MODELS ===", WS, "class Post: pass">>) }

(* A widget that a run does not reach loses its value: the selectbox       *)
(* starts again from its first option.                                     *)
PaviRun(widget, side, option, errs, crashAt) ==
    LET page == PaviRender(openai_key', side, task_list', code_outputs', option,
                           errs, crashAt)
    IN  /\ ui' = [page EXCEPT !.clicked = widget]
        /\ filter_option' = IF page.filter_box THEN option ELSE "All Tasks"

PaviEnterApiKey ==
    /\ program = "app_pavi"
    /\ \E typed \in ApiKeys :
          openai_key' = IF typed # "" THEN typed ELSE openai_key
    /\ UNCHANGED <<task_list, code_outputs, project_description>>
    /\ PaviRun("api key", task_list, filter_option, {}, 0)
    /\ UNCHANGED <<program, app_vars, now, provider_calls>>
    /\ NoProviderCall

PaviResetEverything ==
    /\ program = "app_pavi"
    /\ ui.reset_btn
    /\ task_list' = EmptyList
    /\ code_outputs' = <<>>
    /\ project_description' = ""
    /\ UNCHANGED openai_key
    /\ PaviRun("Reset Everything", task_list', filter_option, {}, 0)
    /\ UNCHANGED <<program, app_vars, now, provider_calls>>
    /\ NoProviderCall

(* Edit Tasks that empties the task list only. *)
PaviEditTasks_KeepsCode ==
    /\ program = "app_pavi"
    /\ ui.edit_btn
    /\ IF Truthy(task_list)
       THEN /\ task_list' = EmptyList
            /\ UNCHANGED code_outputs
       ELSE UNCHANGED <<task_list, code_outputs>>
    /\ UNCHANGED <<openai_key, project_description>>
    /\ PaviRun("Edit Tasks", task_list, filter_option, {}, 0)
    /\ UNCHANGED <<program, app_vars, now, provider_calls>>
    /\ NoProviderCall

(* The button exists only in a run that finds a task list; no rerun        *)
(* follows the click.                                                      *)
PaviEditTasks ==
    /\ program = "app_pavi"
    /\ ui.edit_btn
    /\ IF Truthy(task_list)
       THEN /\ task_list' = EmptyList
            /\ code_outputs' = <<>>
       ELSE UNCHANGED <<task_list, code_outputs>>
    /\ UNCHANGED <<openai_key, project_description>>
    /\ PaviRun("Edit Tasks", task_list, filter_option, {}, 0)
    /\ UNCHANGED <<program, app_vars, now, provider_calls>>
    /\ NoProviderCall

(* The analyze handler appending the new tasks to the list it holds. *)
PaviAnalyze_MergesTasks ==
    /\ program = "app_pavi"
    /\ ui.decompose_btn
    /\ \E project_input \in Briefs, resp \in PaviAnalyzeResponses :
          IF project_input = ""
          THEN /\ resp = ProviderError
               /\ UNCHANGED <<openai_key, task_list, code_outputs, project_description,
                              provider_calls>>
               /\ NoProviderCall
               /\ PaviRun("Analyze Project", task_list, filter_option, {}, 0)
          ELSE LET out == analyze_and_breakdown(resp)
               IN  /\ provider_calls' = provider_calls \cup {openai_key}
                   /\ Called("analyze_and_breakdown", None, project_input, resp, out)
                   /\ IF Truthy(out.ret)
                      THEN /\ task_list' = IF IsList(out.ret) /\ IsList(task_list)
                                           THEN [list |-> task_list.list \o out.ret.list]
                                           ELSE out.ret
                           /\ project_description' = project_input
                           /\ UNCHANGED <<openai_key, code_outputs>>
                           /\ PaviRun("Analyze Project", task_list, filter_option, Messages(out), 0)
                      ELSE /\ UNCHANGED <<openai_key, task_list, code_outputs,
                                          project_description>>
                           /\ PaviRun("Analyze Project", task_list, filter_option,
                                      Messages(out) \cup {"Could not analyze project"}, 0)
    /\ UNCHANGED <<program, app_vars, now>>

(* The analyze handler keeping the submitted description of a failed analysis. *)
PaviAnalyze_StoresDescriptionOnFailure ==
    /\ program = "app_pavi"
    /\ ui.decompose_btn
    /\ \E project_input \in Briefs, resp \in PaviAnalyzeResponses :
          IF project_input = ""
          THEN /\ resp = ProviderError
               /\ UNCHANGED <<openai_key, task_list, code_outputs, project_description,
                              provider_calls>>
               /\ NoProviderCall
               /\ PaviRun("Analyze Project", task_list, filter_option, {}, 0)
          ELSE LET out == analyze_and_breakdown(resp)
               IN  /\ provider_calls' = provider_calls \cup {openai_key}
                   /\ Called("analyze_and_breakdown", None, project_input, resp, out)
                   /\ IF Truthy(out.ret)
                      THEN /\ task_list' = out.ret
                           /\ project_description' = project_input
                           /\ UNCHANGED <<openai_key, code_outputs>>
                           /\ PaviRun("Analyze Project", task_list, filter_option, Messages(out), 0)
                      ELSE /\ project_description' = project_input
                           /\ UNCHANGED <<openai_key, task_list, code_outputs>>
                           /\ PaviRun("Analyze Project", task_list, filter_option,
                                      Messages(out) \cup {"Could not analyze project"}, 0)
    /\ UNCHANGED <<program, app_vars, now>>

PaviAnalyze ==
    /\ program = "app_pavi"
    /\ ui.decompose_btn
    /\ \E project_input \in Briefs, resp \in PaviAnalyzeResponses :
          IF project_input = ""
          THEN /\ resp = ProviderError
               /\ UNCHANGED <<openai_key, task_list, code_outputs, project_description,
                              provider_calls>>
               /\ NoProviderCall
               /\ PaviRun("Analyze Project", task_list, filter_option, {}, 0)
          ELSE LET out == analyze_and_breakdown(resp)
               IN  /\ provider_calls' = provider_calls \cup {openai_key}
                   /\ Called("analyze_and_breakdown", None, project_input, resp, out)
                   /\ IF Truthy(out.ret)
                      THEN /\ task_list' = out.ret
                           /\ project_description' = project_input
                           /\ UNCHANGED <<openai_key, code_outputs>>
                           /\ PaviRun("Analyze Project", task_list, filter_option, Messages(out), 0)
                      ELSE /\ UNCHANGED <<openai_key, task_list, code_outputs,
                                          project_description>>
                           /\ PaviRun("Analyze Project", task_list, filter_option,
                                      Messages(out) \cup {"Could not analyze project"}, 0)
    /\ UNCHANGED <<program, app_vars, now>>

PaviSelectFilter ==
    /\ program = "app_pavi"
    /\ ui.filter_box
    /\ UNCHANGED <<openai_key, task_list, code_outputs, project_description>>
    /\ \E option \in FilterOptions : PaviRun("filter", task_list, option, {}, 0)
    /\ UNCHANGED <<program, app_vars, now, provider_calls>>
    /\ NoProviderCall

PaviGenerate ==
    /\ program = "app_pavi"
    /\ \E task_key \in ui.gen, resp \in PaviGenerateResponses, t \in now..MaxClock :
          LET shown_tasks == filtered_tasks(task_list.list, filter_option)
              pos == Min({i \in DOMAIN shown_tasks :
                             pavi_task_key(shown_tasks[i], i) = task_key})
              task == shown_tasks[pos]
              developer == IF Get(task, "category", Str("UNKNOWN")) = Str("BACKEND")
                           THEN "BackendDeveloper.create_implementation"
                           ELSE "FrontendDeveloper.create_implementation"
              out == IF developer = "BackendDeveloper.create_implementation"
                     THEN BackendDeveloper_create_implementation(task, resp)
                     ELSE FrontendDeveloper_create_implementation(task, resp)
          IN  IF out.raised
              THEN /\ t = now
                   /\ UNCHANGED <<openai_key, task_list, code_outputs, project_description,
                                  now, provider_calls>>
                   /\ Called(developer, task, project_description, ProviderError, out)
                   /\ PaviRun("Generate", task_list, filter_option, {}, pos)
              ELSE /\ provider_calls' = provider_calls \cup {openai_key}
                   /\ Called(developer, task, project_description, resp, out)
                   /\ IF Truthy(out.ret)
                      THEN /\ code_outputs' =
                                DictSet(code_outputs, task_key,
                                        [task |-> task, code |-> out.ret, generated_at |-> t])
                           /\ now' = t
                           /\ UNCHANGED <<openai_key, task_list, project_description>>
                           /\ PaviRun("Generate", task_list, filter_option, {}, 0)
                      ELSE /\ t = now
                           /\ UNCHANGED <<openai_key, task_list, code_outputs,
                                          project_description, now>>
                           /\ PaviRun("Generate", task_list, filter_option, Messages(out), 0)
    /\ UNCHANGED <<program, app_vars>>

PaviRegenerate ==
    /\ program = "app_pavi"
    /\ \E task_key \in ui.regen :
          code_outputs' = DictDel(code_outputs, task_key)
    /\ UNCHANGED <<openai_key, task_list, project_description>>
    /\ PaviRun("regenerate", task_list, filter_option, {}, 0)
    /\ UNCHANGED <<program, app_vars, now, provider_calls>>
    /\ NoProviderCall

(* The value json.dumps writes for the mapping of artifacts: an object     *)
(* with one member per key, each an object of task, code, generated_at.    *)
export_code_outputs(co) ==
    [dict |-> [k \in DictKeys(co) |->
                  [dict |-> [task |-> DictGet(co, k).task,
                             code |-> DictGet(co, k).code,
                             generated_at |-> Str(ToString(DictGet(co, k).generated_at))]]]]

export_data(project, tl, co, clock) ==
    [dict |-> [project |-> Str(project),
               tasks |-> tl,
               generated_code |-> export_code_outputs(co),
               timestamp |-> Str(ToString(clock))]]

(* The export listing the tasks the filter shows instead of all of them. *)
PaviExport_FilteredTasks ==
    /\ program = "app_pavi"
    /\ ui.export_btn
    /\ UNCHANGED <<openai_key, task_list, code_outputs, project_description>>
    /\ LET page == PaviRender(openai_key, task_list, task_list, code_outputs,
                              filter_option, {}, 0)
       IN  /\ ui' = [page EXCEPT
                        !.clicked = "Export All Code as JSON",
                        !.download =
                            IF page.export_btn
                            THEN export_data(project_description,
                                             [list |-> filtered_tasks(task_list.list,
                                                                      filter_option)],
                                             code_outputs, now)
                            ELSE None]
           /\ filter_option' = IF page.filter_box THEN filter_option ELSE "All Tasks"
    /\ NoProviderCall
    /\ UNCHANGED <<program, app_vars, now, provider_calls>>

(* The button sits below the artifacts: the run renders the page again and *)
(* builds the document where the button is.                                *)
PaviExport ==
    /\ program = "app_pavi"
    /\ ui.export_btn
    /\ UNCHANGED <<openai_key, task_list, code_outputs, project_description>>
    /\ LET page == PaviRender(openai_key, task_list, task_list, code_outputs,
                              filter_option, {}, 0)
       IN  /\ ui' = [page EXCEPT
                        !.clicked = "Export All Code as JSON",
                        !.download =
                            IF page.export_btn
                            THEN export_data(project_description, task_list,
                                             code_outputs, now)
                            ELSE None]
           /\ filter_option' = IF page.filter_box THEN filter_option ELSE "All Tasks"
    /\ NoProviderCall
    /\ UNCHANGED <<program, app_vars, now, provider_calls>>

NextPavi ==
    \/ PaviEnterApiKey
    \/ PaviResetEverything
    \/ PaviEditTasks
    \/ PaviAnalyze
    \/ PaviSelectFilter
    \/ PaviGenerate
    \/ PaviRegenerate
    \/ PaviExport

(***************************************************************************)
(* Specifications.                                                         *)
(***************************************************************************)
PureIdle ==
    /\ response = ProviderError
    /\ call = NoCall
    /\ outcome = NoOutcome

SessionStart(prog) ==
    /\ program = prog
    /\ api_key = ""
    /\ tasks = EmptyList
    /\ generated_code = <<>>
    /\ project_brief = Unset
    /\ openai_key = ""
    /\ task_list = EmptyList
    /\ code_outputs = <<>>
    /\ project_description = ""
    /\ filter_option = "All Tasks"
    /\ now = 0
    /\ provider_calls = {}

Init ==
    /\ \E prog \in {"app", "app_pavi"} : SessionStart(prog)
    /\ ui = IF program = "app"
            THEN AppRender(api_key, tasks, generated_code, {}, 0)
            ELSE PaviRender(openai_key, task_list, task_list, code_outputs,
                            filter_option, {}, 0)
    /\ PureIdle

Next == NextApp \/ NextPavi

Spec == Init /\ [][Next]_vars

InitJson ==
    /\ SessionStart("none")
    /\ ui = BlankPage
    /\ response \in Responses(JsonAlphabet, MaxJsonLen)
    /\ call = NoCall
    /\ outcome = NoOutcome

NextJson ==
    \/ Call_decompose_project
    \/ Call_analyze_and_breakdown
    \/ Call_BackendAgent_generate_code
    \/ Call_FrontendAgent_generate_code

SpecJson == InitJson /\ [][NextJson]_vars

InitSections ==
    /\ SessionStart("none")
    /\ ui = BlankPage
    /\ response \in Responses(MarkerAlphabet, MaxMarkerLen)
    /\ call = NoCall
    /\ outcome = NoOutcome

NextSections ==
    \/ Call_BackendDeveloper_create_implementation
    \/ Call_FrontendDeveloper_create_implementation

SpecSections == InitSections /\ [][NextSections]_vars


(***************************************************************************)
(* Properties.                                                             *)
(***************************************************************************)
PaviTaskKeys(tl) ==
    IF IsTaskList(tl)
    THEN UNION {{pavi_task_key(filtered_tasks(tl.list, o)[i], i) :
                    i \in DOMAIN filtered_tasks(tl.list, o)} : o \in FilterOptions}
    ELSE {}

Elements(v) == IF IsList(v) THEN {v.list[i] : i \in DOMAIN v.list} ELSE {}

(* C1: every artifact on the page belongs to the derived key of a task of  *)
(* the current task list, and a task marked as generated is marked so by   *)
(* an artifact that was generated for a task of the current list.          *)
C1_RenderedArtifactsBelongToCurrentTasks ==
    /\ program = "app" =>
          /\ ui.shown \subseteq AppTaskKeys(tasks)
          /\ \A k \in ui.regen : DictGet(generated_code, k).task \in Elements(tasks)
    /\ program = "app_pavi" =>
          /\ ui.shown \subseteq PaviTaskKeys(task_list)
          /\ \A k \in ui.regen : DictGet(code_outputs, k).task \in Elements(task_list)

C3_RegenerateDeletesBeforeStore ==
    [][ /\ \A k \in DictKeys(generated_code) \cap DictKeys(generated_code') :
              DictGet(generated_code', k) = DictGet(generated_code, k)
        /\ \A k \in DictKeys(code_outputs) \cap DictKeys(code_outputs') :
              DictGet(code_outputs', k) = DictGet(code_outputs, k)
        /\ ui'.clicked = "Regenerate" =>
              \E k \in DictKeys(generated_code) :
                  /\ k \notin DictKeys(generated_code')
                  /\ DictKeys(generated_code') = DictKeys(generated_code) \ {k}
        /\ ui'.clicked = "regenerate" =>
              \E k \in DictKeys(code_outputs) :
                  /\ k \notin DictKeys(code_outputs')
                  /\ DictKeys(code_outputs') = DictKeys(code_outputs) \ {k} ]_vars

(* Regenerate was clicked: the key has no record and offers Generate again *)
(* while another artifact is still stored.                                 *)
C3_Witness ==
    /\ ui.clicked = "Regenerate"
    /\ \E k \in ui.gen : k \notin DictKeys(generated_code)
    /\ generated_code # <<>>

(* C4: no chat completion is sent with an empty credential; while the      *)
(* stored credential is empty the run shows the warning and stops before   *)
(* the decompose and generate widgets.                                     *)
C4_NoCallWithoutCredential ==
    /\ "" \notin provider_calls
    /\ (program = "app" /\ api_key = "") =>
          /\ ui.warning
          /\ ~ui.decompose_btn /\ ui.gen = {} /\ ui.regen = {}
    /\ (program = "app_pavi" /\ openai_key = "") =>
          /\ ui.warning
          /\ ~ui.decompose_btn /\ ui.gen = {} /\ ui.regen = {}

(* A button was clicked while no credential is stored. *)
C4_Witness ==
    /\ program = "app"
    /\ api_key = ""
    /\ ui.clicked = "Clear All Tasks"
    /\ ui.warning


GeneratorCalls ==
    {"BackendAgent.generate_code", "FrontendAgent.generate_code",
     "BackendDeveloper.create_implementation", "FrontendDeveloper.create_implementation"}

VariantFields(fn) ==
    CASE fn = "BackendAgent.generate_code" ->
            {"database_schema", "api_endpoints", "business_logic", "requirements"}
      [] fn = "FrontendAgent.generate_code" ->
            {"component_code", "styling", "api_integration", "dependencies"}
      [] fn = "BackendDeveloper.create_implementation" -> BackendFields
      [] OTHER -> FrontendFields

(* C5: a generator whose provider call or extraction failed returns a      *)
(* record with every field of its variant set to an error placeholder,     *)
(* never an empty record.                                                  *)
C5_FailureReturnsPlaceholderRecord ==
    (call.fn \in GeneratorCalls /\ outcome.error # "") =>
        /\ IsDict(outcome.ret)
        /\ outcome.ret # EmptyDict
        /\ DOMAIN outcome.ret.dict = VariantFields(call.fn)
        /\ \A f \in DOMAIN outcome.ret.dict : Truthy(outcome.ret.dict[f])

(* C6: for a reply without "[" the task decomposer returns the empty       *)
(* sequence and does not raise.                                            *)
C6_NoBracketReplyYieldsEmptySequence ==
    ( /\ call.fn \in {"decompose_project", "analyze_and_breakdown"}
      /\ ~response.raises
      /\ Positions(response.text, "[") = {} ) =>
        /\ ~outcome.raised
        /\ outcome.ret = EmptyList

(* C7: a decomposition that failed in the decomposer is reported as failed *)
(* by the handler (the decomposer returned nothing), and a failed          *)
(* decomposition leaves the task list, the stored brief and the artifact   *)
(* mapping as they were, with the decompose button on the page again.      *)
C7_FailedDecompositionChangesNothing ==
    [][ /\ (ui'.clicked = "Decompose Project" /\ "Error in coordinator agent" \in ui'.errors)
              => "Failed to decompose project" \in ui'.errors
        /\ (ui'.clicked = "Decompose Project" /\ "Failed to decompose project" \in ui'.errors)
              => /\ tasks' = tasks
                 /\ project_brief' = project_brief
                 /\ generated_code' = generated_code
                 /\ ui'.decompose_btn
        /\ (ui'.clicked = "Analyze Project" /\ "Coordinator error" \in ui'.errors)
              => "Could not analyze project" \in ui'.errors
        /\ (ui'.clicked = "Analyze Project" /\ "Could not analyze project" \in ui'.errors)
              => /\ task_list' = task_list
                 /\ project_description' = project_description
                 /\ code_outputs' = code_outputs
                 /\ ui'.decompose_btn ]_vars

(* A decomposition failed in a session that holds tasks and an artifact. *)
C7_Witness ==
    /\ ui.clicked = "Decompose Project"
    /\ "Error in coordinator agent" \in ui.errors
    /\ Truthy(tasks)
    /\ generated_code # <<>>

DeveloperCalls ==
    {"BackendDeveloper.create_implementation", "FrontendDeveloper.create_implementation"}

VariantPrefix(fn) == IF fn = "BackendDeveloper.create_implementation" THEN "#" ELSE "//"

(* field name -> section name of the variant *)
VariantSections(fn) ==
    IF fn = "BackendDeveloper.create_implementation"
    THEN [models |-> "DATABASE MODELS", routes |-> "API ROUTES",
          logic |-> "BUSINESS LOGIC", dependencies |-> "DEPENDENCIES"]
    ELSE [component |-> "REACT COMPONENT", styles |-> "STYLES",
          hooks |-> "HOOKS & API", dependencies |-> "DEPENDENCIES"]

FallbackField(fn) ==
    IF fn = "BackendDeveloper.create_implementation" THEN "models" ELSE "component"

SectionNames(fn) == {VariantSections(fn)[f] : f \in DOMAIN VariantSections(fn)}

IsVariantMarker(tok, fn) ==
    /\ IsHeader(tok)
    /\ HeaderPrefix(tok) = VariantPrefix(fn)
    /\ UpperCase(HeaderName(tok)) \in SectionNames(fn)

HasVariantMarker(text, fn) == \E i \in DOMAIN text : IsVariantMarker(text[i], fn)

Extracted ==
    /\ call.fn \in DeveloperCalls
    /\ ~response.raises
    /\ ~outcome.raised

(* C8 as stated: without any marker of the variant in the reply, the       *)
(* fallback field holds the whole trimmed reply and the three other fields *)
(* are empty.                                                              *)
C8_FallbackLeavesOthersEmpty ==
    (Extracted /\ ~HasVariantMarker(response.text, call.fn)) =>
        /\ outcome.ret.dict[FallbackField(call.fn)] = Text(Strip(response.text))
        /\ \A f \in DOMAIN outcome.ret.dict \ {FallbackField(call.fn)} :
              outcome.ret.dict[f] = Text(<<>>)

(* C8 amended: without any marker of the variant in the reply, the         *)
(* fallback field holds the whole trimmed reply; the frontend generator    *)
(* leaves the three other fields empty, the backend generator sets routes  *)
(* and logic to "# Code generated above" and dependencies to               *)
(* "# Check requirements above".                                           *)
C8_FallbackAmended ==
    (Extracted /\ ~HasVariantMarker(response.text, call.fn)) =>
        /\ DOMAIN outcome.ret.dict = VariantFields(call.fn)
        /\ outcome.ret.dict[FallbackField(call.fn)] = Text(Strip(response.text))
        /\ call.fn = "FrontendDeveloper.create_implementation" =>
              \A f \in {"styles", "hooks", "dependencies"} :
                  outcome.ret.dict[f] = Text(<<>>)
        /\ call.fn = "BackendDeveloper.create_implementation" =>
              /\ outcome.ret.dict["routes"] = Text(<<"# Code generated above">>)
              /\ outcome.ret.dict["logic"] = Text(<<"# Code generated above">>)
              /\ outcome.ret.dict["dependencies"] = Text(<<"# Check requirements above">>)

(* The backend generator got a reply without markers that needed trimming. *)
C8_Witness ==
    /\ Extracted
    /\ call.fn = "BackendDeveloper.create_implementation"
    /\ ~HasVariantMarker(response.text, call.fn)
    /\ Strip(response.text) # <<>>
    /\ Strip(response.text) # response.text

(* The capture as the claim describes it: from just after the first marker *)
(* of that name to the next marker of the variant, or to the end, trimmed. *)
ClaimedCapture(text, fn, name) ==
    LET content == Strip(text)
        starts == {i \in DOMAIN content :
                      /\ IsVariantMarker(content[i], fn)
                      /\ UpperCase(HeaderName(content[i])) = name}
    IN  IF starts = {} THEN <<>>
        ELSE LET i == Min(starts)
                 stops == {j \in (i + 1)..Len(content) : IsVariantMarker(content[j], fn)}
                 e == IF stops = {} THEN Len(content) + 1 ELSE Min(stops)
             IN  Strip(SubSeq(content, i + 1, e - 1))

(* C9: where the generator found text in some section of the variant,      *)
(* every field equals the text from its marker to the next recognized      *)
(* marker or the end; a header that is not one of the four markers does    *)
(* not end the capture, and a section without marker stays empty.          *)
C9_CaptureUpToNextRecognizedMarker ==
    ( /\ Extracted
      /\ \E f \in DOMAIN VariantSections(call.fn) :
            section_field(Strip(response.text), VariantPrefix(call.fn),
                          VariantSections(call.fn)[f]) # <<>> ) =>
        \A f \in DOMAIN VariantSections(call.fn) :
            outcome.ret.dict[f] =
                Text(ClaimedCapture(response.text, call.fn, VariantSections(call.fn)[f]))

(* C10: no run started by a Generate click is ended by an uncaught error.  *)
C10_GenerateNeverAborts ==
    ui.clicked \in {"Generate Code", "Generate"} => ui.crashed = ""

(* The positions of the task list that a filter selection keeps, in order. *)
KeptPositions(tl, option) ==
    SelectSeq([i \in DOMAIN tl |-> i],
              LAMBDA i : \/ option = "All Tasks"
                         \/ option = "Backend Only"
                            /\ Get(tl[i], "category", None) = Str("BACKEND")
                         \/ option = "Frontend Only"
                            /\ Get(tl[i], "category", None) = Str("FRONTEND"))

(* The key the task loop derives, under a filter selection, for the task   *)
(* that is the n-th one it shows.                                          *)
ShownKey(tl, option, n) == pavi_task_key(tl[KeptPositions(tl, option)[n]], n)

(* C11: the keys derived for the tasks of the current task list differ     *)
(* from task to task, and in app_pavi.py a task gets the same key under    *)
(* every filter selection that shows it.                                   *)
C11_TaskKeysUniqueAndStable ==
    /\ (program = "app" /\ IsTaskList(tasks)) =>
          \A i, j \in DOMAIN tasks.list :
              i # j => app_task_key(tasks.list[i], i) # app_task_key(tasks.list[j], j)
    /\ (program = "app_pavi" /\ IsTaskList(task_list)) =>
          \A o1, o2 \in FilterOptions :
              \A n1 \in DOMAIN KeptPositions(task_list.list, o1),
                 n2 \in DOMAIN KeptPositions(task_list.list, o2) :
                  (KeptPositions(task_list.list, o1)[n1] = KeptPositions(task_list.list, o2)[n2])
                      <=> (ShownKey(task_list.list, o1, n1) = ShownKey(task_list.list, o2, n2))

(* The artifact mapping of the running program. *)
Store == IF program = "app" THEN generated_code ELSE code_outputs

GenerateClicks == {"Generate Code", "Generate"}
RegenerateClicks == {"Regenerate", "regenerate"}
ResetClicks == {"Clear All Tasks", "Reset Everything", "Edit Tasks"}
DecomposeClicks == {"Decompose Project", "Analyze Project"}

(* The run was started by a Generate click and its generator reported an   *)
(* error or raised one.                                                    *)
GenerationFailed ==
    /\ ui.clicked \in GenerateClicks
    /\ (outcome.error # "" \/ outcome.raised)

(* C12: a key gets an artifact only by a Generate click on a key that was  *)
(* offered Generate and whose generation did not fail; it loses the        *)
(* artifact only by its own Regenerate click or by a reset that empties    *)
(* the mapping; a decomposition and a failed generation leave the mapping  *)
(* as it was.                                                              *)
C12_KeyLifecycle ==
    [][ /\ \A k \in DictKeys(Store') \ DictKeys(Store) :
              /\ ui'.clicked \in GenerateClicks
              /\ k \in ui.gen
              /\ DictKeys(Store') = DictKeys(Store) \cup {k}
        /\ \A k \in DictKeys(Store) \ DictKeys(Store') :
              \/ /\ ui'.clicked \in RegenerateClicks
                 /\ k \in ui.regen
                 /\ DictKeys(Store') = DictKeys(Store) \ {k}
              \/ /\ ui'.clicked \in ResetClicks
                 /\ Store' = <<>>
        /\ ui'.clicked \in DecomposeClicks => Store' = Store
        /\ GenerationFailed' => Store' = Store
        /\ ui.gen \cap DictKeys(Store) = {} ]_vars

(* The task whose Generate button carries key k on the current page: the   *)
(* first task of the shown list that derives k.                            *)
TaskOffered(k) ==
    IF program = "app"
    THEN tasks.list[Min({i \in DOMAIN tasks.list : app_task_key(tasks.list[i], i) = k})]
    ELSE LET shown_tasks == filtered_tasks(task_list.list, filter_option)
         IN  shown_tasks[Min({i \in DOMAIN shown_tasks :
                                 pavi_task_key(shown_tasks[i], i) = k})]

(* C13: when the generator called for the Generate button of key k reports *)
(* a provider or parse error, k has no artifact after the run and the page *)
(* offers Generate for k again.                                            *)
C13_FailedGenerationCanBeRetried ==
    [][ \A k \in ui.gen :
          ( /\ ui'.clicked \in GenerateClicks
            /\ call'.task = TaskOffered(k)
            /\ outcome'.error # ""
            /\ ~outcome'.raised ) =>
              /\ k \notin DictKeys(Store')
              /\ k \in ui'.gen ]_vars

(* The task list of the running program. *)
TaskList == IF program = "app" THEN tasks ELSE task_list

(* The run was started by the decompose button and its decomposer returned *)
(* a non-empty result.                                                     *)
DecompositionSucceeded ==
    /\ ui.clicked \in DecomposeClicks
    /\ call.fn \in {"decompose_project", "analyze_and_breakdown"}
    /\ Truthy(outcome.ret)

(* C14: after a successful decomposition the task list is the sequence the *)
(* decomposer returned for this reply, whatever the list held before.      *)
C14_DecompositionReplacesTaskList ==
    [][ DecompositionSucceeded' =>
          /\ TaskList' = outcome'.ret
          /\ outcome' = IF program = "app" THEN decompose_project(response')
                                          ELSE analyze_and_breakdown(response') ]_vars

(* A second analysis succeeded while an artifact of a task of the previous *)
(* list is still stored: the previous list was not empty and not the same. *)
C14_Witness ==
    /\ program = "app_pavi"
    /\ DecompositionSucceeded
    /\ IsTaskList(task_list)
    /\ \E e \in DOMAIN code_outputs : code_outputs[e].value.task \notin Elements(task_list)

Exported == ui.clicked = "Export All Code as JSON" /\ ui.download # None

C16_EmptyTaskListMeansEmptyStore ==
    /\ [](~Truthy(TaskList) => Store = <<>>)
    /\ [][ /\ (Truthy(TaskList) /\ ~Truthy(TaskList')) =>
                  (ui'.clicked \in ResetClicks /\ Store' = <<>>)
           /\ ( /\ ui'.clicked \in DecomposeClicks
                 /\ call'.fn \in {"decompose_project", "analyze_and_breakdown"}
                 /\ ~Truthy(outcome'.ret) ) => TaskList' = TaskList ]_vars

(* Edit Tasks emptied the task list of a session in which an artifact had  *)
(* been stored at a later time of the clock.                               *)
C16_Witness ==
    /\ ui.clicked = "Edit Tasks"
    /\ task_list = EmptyList
    /\ project_description # ""
    /\ now > 0

(* The task field that names the category. *)
CategoryField == IF program = "app" THEN "agent_type" ELSE "category"

IsBackendTask(task) == Get(task, CategoryField, None) = Str("BACKEND")

BackendGenerators ==
    {"BackendAgent.generate_code", "BackendDeveloper.create_implementation"}

(* C17: a Generate run calls the backend generator for a task whose        *)
(* category is BACKEND and the frontend generator for every other task,    *)
(* and stores the result with that task; the task kept with a stored       *)
(* artifact never changes; and every artifact on the page has the backend  *)
(* tabs if the task kept with it is a BACKEND task and the frontend tabs   *)
(* otherwise.                                                              *)
C17_ArtifactRenderedAsGenerated ==
    /\ [](\A k \in ui.shown :
              k \in ui.backend_tabs <=> IsBackendTask(DictGet(Store, k).task))
    /\ [][ /\ (ui'.clicked \in GenerateClicks /\ call'.fn \in GeneratorCalls) =>
                  /\ call'.fn \in BackendGenerators <=> IsBackendTask(call'.task)
                  /\ \A k \in DictKeys(Store') \ DictKeys(Store) :
                        DictGet(Store', k).task = call'.task
           /\ \A k \in DictKeys(Store') \ DictKeys(Store) :
                  ui'.clicked \in GenerateClicks /\ call'.fn \in GeneratorCalls
           /\ \A k \in DictKeys(Store) \cap DictKeys(Store') :
                  DictGet(Store', k).task = DictGet(Store, k).task ]_vars

(* The artifact of a task of unknown category is on the page, under the    *)
(* frontend tabs.                                                          *)
C17_Witness ==
    \E k \in ui.shown \ ui.backend_tabs :
        Get(DictGet(Store, k).task, CategoryField, None) \notin
            {Str("BACKEND"), Str("FRONTEND")}

(* The stored brief of the running program. *)
Brief == IF program = "app" THEN project_brief ELSE project_description

(* C18: while the task list is not empty the stored brief is a submitted   *)
(* brief; a successful decomposition stores the brief it was called with;  *)
(* every other step that leaves a task list leaves that list and the brief *)
(* as they were, a failed decomposition of another brief included; and a   *)
(* generator is called with the stored brief.                              *)
C18_BriefBelongsToTaskList ==
    /\ [](Truthy(TaskList) => Brief \in Briefs \ {""})
    /\ [][ /\ DecompositionSucceeded' => Brief' = call'.brief
           /\ (~DecompositionSucceeded' /\ Truthy(TaskList')) =>
                  (Brief' = Brief /\ TaskList' = TaskList)
           /\ (ui'.clicked \in GenerateClicks /\ call'.fn \in GeneratorCalls) =>
                  (call'.brief = Brief /\ Brief' = Brief) ]_vars

(* The decomposition of another brief failed while a task list is held. *)
C18_Witness ==
    /\ ui.clicked \in DecomposeClicks
    /\ call.fn \in {"decompose_project", "analyze_and_breakdown"}
    /\ ~Truthy(outcome.ret)
    /\ Truthy(TaskList)
    /\ call.brief # Brief

(* What the four searches of the variant capture from the reply, trimmed. *)
Captured(text, fn) ==
    [f \in DOMAIN VariantSections(fn) |->
        section_field(Strip(text), VariantPrefix(fn), VariantSections(fn)[f])]

AllCapturedEmpty(text, fn) == \A f \in DOMAIN Captured(text, fn) : Captured(text, fn)[f] = <<>>

(* C19: the generator takes the fallback exactly when all four captured    *)
(* fields are empty after trimming, markers in the reply or not: then the  *)
(* fallback field holds the whole trimmed reply, markers included;         *)
(* otherwise every field holds what was captured for it.                   *)
C19_FallbackWhenAllFieldsEmpty ==
    Extracted =>
        IF AllCapturedEmpty(response.text, call.fn)
        THEN outcome.ret.dict[FallbackField(call.fn)] = Text(Strip(response.text))
        ELSE \A f \in DOMAIN VariantSections(call.fn) :
                outcome.ret.dict[f] = Text(Captured(response.text, call.fn)[f])

(* A reply that holds markers of the variant and nothing between them. *)
C19_Witness ==
    /\ Extracted
    /\ call.fn = "FrontendDeveloper.create_implementation"
    /\ HasVariantMarker(response.text, call.fn)
    /\ Len(response.text) >= 2
    /\ AllCapturedEmpty(response.text, call.fn)
    /\ outcome.ret.dict["component"] = Text(Strip(response.text))

=============================================================================
